---- MODULE Spec2Model ----
(***************************************************************************)
(* ansible-pull (lib/ansible/cli/pull.py): PullCLI.parse reconciles the    *)
(* command line, PullCLI.run checks the repository out with a VCS module,  *)
(* selects a playbook in the checkout, runs ansible-playbook on it and     *)
(* optionally purges the checkout.                                         *)
(*                                                                         *)
(* Representation.  An unset string option (None) is the empty string "",  *)
(* which python's truth tests treat alike.  A dict is a function whose     *)
(* DOMAIN is its key set.  A file name is the sequence of its dot          *)
(* separated labels, "local.yml" = <<"local", "yml">>; a path inside the   *)
(* checkout is the pair <<dest, name>>; the playbook None is <<>>.         *)
(***************************************************************************)
EXTENDS Integers, Sequences, FiniteSets, TLC

VARIABLES
    options,      \* self.options: the optparse values (dest and sleep are rewritten by parse)
    args,         \* self.args: the positional arguments (at most one playbook name)
    sys,          \* the host: socket.getfqdn(), module_loader, the shared CLI layer's verdict
    destState,    \* what options.dest is on the filesystem: "absent", "dir" or "file"
    files,        \* the playbook files under dest: name -> "absent" | "unreadable" | "ok"
    scm_args,     \* self.scm_args
    warnings,     \* what display.warning has been called with
    errors,       \* what display.error has been called with
    calls,        \* the run_cmd invocations made so far, in order
    playbook,     \* run()'s local variable playbook
    rc,           \* run()'s local variable rc
    b_out,        \* whether run()'s captured b_out contains b'"changed": true'
    pc,           \* position in the program
    result        \* how the program ended: a returned exit code or AnsibleOptionsError

vars == <<options, args, sys, destState, files, scm_args, warnings, errors,
          calls, playbook, rc, b_out, pc, result>>

----------------------------------------------------------------------------
(* Bounds *)

\* exit codes of the two subprocesses range over 0..MaxRc
MaxRc == 2
\* numeric --sleep values range over 0..MaxSleep
MaxSleep == 1
\* number of key=value pairs in --module-args
MaxArgs == 2

----------------------------------------------------------------------------
(* Class attributes *)

DEFAULT_REPO_TYPE == "git"
DEFAULT_PLAYBOOK == <<"local", "yml">>
REPO_CHOICES == <<"git", "subversion", "hg", "bzr">>
PLAYBOOK_ERRORS == [c \in {1, 2} |-> IF c = 1 THEN "File does not exist"
                                            ELSE "File is not readable"]
SUPPORTED_REPO_MODULES == <<"git">>

Range(s) == {s[i] : i \in DOMAIN s}

----------------------------------------------------------------------------
(* dict operations *)

EmptyDict == [k \in {} |-> ""]
Has(d, k) == k \in DOMAIN d
Put(d, k, v) == [x \in DOMAIN d \cup {k} |-> IF x = k THEN v ELSE d[x]]
Del(d, k) == [x \in DOMAIN d \ {k} |-> d[x]]

\* parse_kv on a string of key=value words, given as the sequence of its
\* <<key, value>> pairs: a later pair replaces an earlier one with the same key
parse_kv(s) ==
    [k \in {s[i][1] : i \in DOMAIN s} |->
        s[CHOOSE i \in DOMAIN s :
              /\ s[i][1] = k
              /\ \A j \in DOMAIN s : j > i => s[j][1] # k][2]]

----------------------------------------------------------------------------
(* Results *)

NoResult == [kind |-> "none", rc |-> 0, msg |-> "", detail |-> <<>>]
Return(code) == [kind |-> "return", rc |-> code, msg |-> "", detail |-> <<>>]
\* raise AnsibleOptionsError(msg); detail is the list the message joins with ','
AnsibleOptionsError(msg, detail) ==
    [kind |-> "error", rc |-> 0, msg |-> msg, detail |-> detail]

----------------------------------------------------------------------------
(* Filesystem and host *)

\* os.path.join(path, name) for a file name inside the directory path
Join(path, name) == <<path, name>>

\* socket.getfqdn().split('.')[0]
ShortHostname(fqdn) == <<fqdn[1]>>

\* os.path.join('~/.ansible/pull', hostname), user and variables expanded
DefaultDest(fqdn) == <<"~/.ansible/pull", fqdn>>
\* a -d/--directory value, user and variables expanded
GivenDest(d) == <<d, <<>>>>

\* os.path.exists(p), p a path under the checkout directory dest
Exists(p, dest, fs) ==
    /\ Len(p) = 2
    /\ p[1] = dest
    /\ p[2] \in DOMAIN fs
    /\ fs[p[2]] # "absent"

\* os.access(p, os.R_OK)
Readable(p, dest, fs) == Exists(p, dest, fs) /\ fs[p[2]] = "ok"

----------------------------------------------------------------------------
(* PullCLI.try_playbook and PullCLI.select_playbook *)

\* try_playbook with the two tests in the other order
try_playbook_ReadableFirst(path, dest, fs) ==
    IF ~Readable(path, dest, fs) THEN 2
    ELSE IF ~Exists(path, dest, fs) THEN 1
    ELSE 0

try_playbook(path, dest, fs) ==
    IF ~Exists(path, dest, fs) THEN 1
    ELSE IF ~Readable(path, dest, fs) THEN 2
    ELSE 0

Warning(text, key, by, lines) == [text |-> text, key |-> key, by |-> by, lines |-> lines]

\* Candidates with the default playbook tried first
Candidates_LocalFirst(path, fqdn) ==
    << Join(path, DEFAULT_PLAYBOOK),
       Join(path, fqdn \o <<"yml">>),
       Join(path, ShortHostname(fqdn) \o <<"yml">>) >>

\* the candidates of the fallback search, in the order of the for loop
Candidates(path, fqdn) ==
    << Join(path, fqdn \o <<"yml">>),
       Join(path, ShortHostname(fqdn) \o <<"yml">>),
       Join(path, DEFAULT_PLAYBOOK) >>

\* the for loop over the candidates from index i: the first candidate that
\* passes, and the errors appended on the way
RECURSIVE FallbackSearch(_, _, _, _, _)
FallbackSearch(cands, i, errs, dest, fs) ==
    IF i > Len(cands) THEN [playbook |-> <<>>, errors |-> errs]
    ELSE LET c == try_playbook(cands[i], dest, fs)
         IN  IF c = 0 THEN [playbook |-> cands[i], errors |-> errs]
             ELSE FallbackSearch(cands, i + 1,
                                 Append(errs, <<cands[i], PLAYBOOK_ERRORS[c]>>), dest, fs)

\* returns the playbook (<<>> for None) and the warnings emitted
select_playbook(path, a, fqdn, fs) ==
    IF Len(a) > 0 /\ a[1] # <<>>
    THEN LET pb == Join(path, a[1])
             c  == try_playbook(pb, path, fs)
         IN  IF c # 0
             THEN [playbook |-> <<>>,
                   warnings |-> {Warning("playbook", "", "", <<<<pb, PLAYBOOK_ERRORS[c]>>>>)}]
             ELSE [playbook |-> pb, warnings |-> {}]
    ELSE LET r == FallbackSearch(Candidates(path, fqdn), 1, <<>>, path, fs)
         IN  [playbook |-> r.playbook,
              warnings |-> IF r.playbook = <<>>
                           THEN {Warning("playbook", "", "", r.errors)}
                           ELSE {}]

----------------------------------------------------------------------------
(* PullCLI.parse *)

\* 'dest' in self.scm_args
DestReserved(kv) == Has(kv, "dest")

\* UrlKeyConflict that rejects the key whatever its value
UrlKeyConflict_Always(o, kv, family, key) ==
    o.module_name \in family /\ Has(kv, key)

\* the repository key of a module family is given and is not the URL
UrlKeyConflict(o, kv, family, key) ==
    o.module_name \in family /\ Has(kv, key) /\ kv[key] # o.url

\* the checks of parse in their order; secs is the value random.randint drew.
\* Yields the rewritten options, self.scm_args and the error raised, if any.
ParseOutcome(o, host, ds, secs) ==
    LET dest == IF o.dest = "" THEN DefaultDest(host.fqdn) ELSE GivenDest(o.dest)
        o1   == [o EXCEPT !.dest = dest]
        o2   == IF o.sleep.kind = "int" THEN [o1 EXCEPT !.sleep = [kind |-> "secs", n |-> secs]]
                ELSE o1
        kv   == IF o.module_args # <<>> THEN parse_kv(o.module_args) ELSE EmptyDict
        Fail(oo, a, msg, detail) ==
            [options |-> oo, scm_args |-> a, result |-> AnsibleOptionsError(msg, detail)]
    IN  IF ds = "file"
        THEN Fail(o1, EmptyDict, "is not a valid or accessible directory", <<>>)
        ELSE IF o.sleep.kind = "text" \/ (o.sleep.kind = "int" /\ o.sleep.n < 0)
        THEN Fail(o1, EmptyDict, "is not a number", <<>>)
        ELSE IF o.url = ""
        THEN Fail(o2, EmptyDict, "URL for repository not specified", <<>>)
        ELSE IF o.module_name \notin Range(SUPPORTED_REPO_MODULES)
        THEN Fail(o2, kv, "Unsupported repo module", SUPPORTED_REPO_MODULES)
        ELSE IF DestReserved(kv)
        THEN Fail(o2, kv, "--module-args 'dest=<repo destination>' cannot be used", <<>>)
        ELSE IF UrlKeyConflict(o, kv, {"bzr", "git"}, "name")
        THEN Fail(o2, kv, "--module-args 'name=<repo URL>' cannot be used", <<>>)
        ELSE IF UrlKeyConflict(o, kv, {"hg", "subversion"}, "repo")
        THEN Fail(o2, kv, "--module-args 'repo=<repo URL>' cannot be used", <<>>)
        ELSE IF host.conflicts
        THEN Fail(o2, kv, "conflicting options", <<>>)
        ELSE [options |-> o2, scm_args |-> kv, result |-> NoResult]

----------------------------------------------------------------------------
(* PullCLI.run: the SCM options *)

\* LegacyOverride that keeps a value --module-args supplied
LegacyOverride_KeepsUser(st, flag, key, value, by) ==
    IF flag
    THEN [args     |-> IF Has(st.args, key) THEN st.args ELSE Put(st.args, key, value),
          warnings |-> st.warnings \cup
                       (IF Has(st.args, key)
                        THEN {Warning("overridden", key, by, <<>>)} ELSE {})]
    ELSE st

\* a legacy flag that is set writes its value under key, and warns when the
\* key was already in the map
LegacyOverride(st, flag, key, value, by) ==
    IF flag
    THEN [args     |-> Put(st.args, key, value),
          warnings |-> st.warnings \cup
                       (IF Has(st.args, key)
                        THEN {Warning("overridden", key, by, <<>>)} ELSE {})]
    ELSE st

\* ShallowDefault that writes the default over a value --module-args supplied
ShallowDefault_Overwrites(st, fullclone, key, value) ==
    IF ~fullclone
    THEN [st EXCEPT !.args = Put(st.args, key, value)]
    ELSE IF fullclone /\ Has(st.args, key)
    THEN [args     |-> Del(st.args, key),
          warnings |-> st.warnings \cup {Warning("removed", key, "--full", <<>>)}]
    ELSE st

\* --full against the key that makes the checkout shallow (depth or export)
ShallowDefault(st, fullclone, key, value) ==
    IF ~fullclone /\ ~Has(st.args, key)
    THEN [st EXCEPT !.args = Put(st.args, key, value)]
    ELSE IF fullclone /\ Has(st.args, key)
    THEN [args     |-> Del(st.args, key),
          warnings |-> st.warnings \cup {Warning("removed", key, "--full", <<>>)}]
    ELSE st

\* the map and the warnings after the SCM options block of run
ScmOptions(o, a) ==
    LET m  == o.module_name
        s0 == [args |-> Put(a, "dest", o.dest), warnings |-> {}]
        s1 == IF m \in {"bzr", "git"} THEN [s0 EXCEPT !.args = Put(s0.args, "name", o.url)] ELSE s0
        s2 == IF m \in {"hg", "subversion"} THEN [s1 EXCEPT !.args = Put(s1.args, "repo", o.url)] ELSE s1
        checkout_key == IF m \in {"bzr", "git"} THEN "version" ELSE "revision"
        s3 == LegacyOverride(s2, o.checkout # "" /\ m \in {"bzr", "git", "hg", "subversion"},
                             checkout_key, o.checkout, "--checkout")
        s4 == IF o.clean THEN [s3 EXCEPT !.args = Put(s3.args, "force", "yes")] ELSE s3
        g1 == LegacyOverride(s4, o.accept_host_key, "accept_hostkey", "yes", "--accept-host-key")
        g2 == ShallowDefault(g1, o.fullclone, "depth", "1")
        g3 == LegacyOverride(g2, o.private_key_file # "", "key_file", o.private_key_file,
                             "--private-key")
        g4 == LegacyOverride(g3, o.tracksubs, "track_submodules", "yes", "--track-subs")
        g5 == LegacyOverride(g4, o.verify, "verify_commit", "yes", "--verify-commit")
    IN  IF m = "git" THEN g5
        ELSE IF m = "subversion" THEN ShallowDefault(s4, o.fullclone, "export", "yes")
        ELSE s4

\* CheckoutPolicy with -f/--force ignored
CheckoutPolicy_NoForce(code, force, ifchanged, changed) ==
    IF code # 0 THEN "return rc"
    ELSE IF ifchanged /\ ~changed THEN "return 0"
    ELSE "continue"

\* CheckoutPolicy with the changed marker read the wrong way round
CheckoutPolicy_Inverted(code, force, ifchanged, changed) ==
    IF code # 0
    THEN IF force THEN "continue" ELSE "return rc"
    ELSE IF ifchanged /\ changed THEN "return 0"
    ELSE "continue"

\* what run does with the result of the checkout
CheckoutPolicy(code, force, ifchanged, changed) ==
    IF code # 0
    THEN IF force THEN "continue" ELSE "return rc"
    ELSE IF ifchanged /\ ~changed THEN "return 0"
    ELSE "continue"

\* EarlyReturn that raises on a failed checkout instead of returning its code
EarlyReturn_Raises(policy, code) ==
    IF policy = "return rc" THEN AnsibleOptionsError("Unable to update repository", <<>>)
    ELSE Return(0)

\* the two return statements that follow the checkout
EarlyReturn(policy, code) ==
    IF policy = "return rc" THEN Return(code) ELSE Return(0)

\* one run_cmd invocation: what was run, and the exit code and output it came back with
Call(cmd, module, a, pb, code, changed) ==
    [cmd |-> cmd, module |-> module, args |-> a, playbook |-> pb,
     rc |-> code, changed |-> changed]

----------------------------------------------------------------------------
(* The inputs *)

Seqs(S, n) == UNION {[1..k -> S] : k \in 0..n}

SleepNone == [kind |-> "none", n |-> 0]
SleepText == [kind |-> "text", n |-> 0]
SleepInt(n) == [kind |-> "int", n |-> n]
\* -s absent, -s abc, -s -1, -s 0 .. -s MaxSleep
SleepValues == {SleepNone, SleepText} \cup {SleepInt(n) : n \in -1..MaxSleep}

\* the playbook names select_playbook can look at on this host
PlaybookNames(fqdn, a) ==
    {fqdn \o <<"yml">>, ShortHostname(fqdn) \o <<"yml">>, DEFAULT_PLAYBOOK}
        \cup {a[i] : i \in DOMAIN a}

NoFiles(fqdn, a) == [n \in PlaybookNames(fqdn, a) |-> "absent"]

\* a command line and a host: one value from each set of the profile p
InitFrom(p) ==
    /\ options \in [module_name: p.module_name, url: p.url, dest: p.dest,
                    sleep: p.sleep, module_args: p.module_args,
                    checkout: p.checkout, clean: p.clean,
                    accept_host_key: p.accept_host_key, fullclone: p.fullclone,
                    private_key_file: p.private_key_file, tracksubs: p.tracksubs,
                    verify: p.verify, force: p.force, ifchanged: p.ifchanged,
                    purge: p.purge]
    /\ args \in p.args
    /\ sys \in [fqdn: p.fqdn, plugin: p.plugin, conflicts: p.conflicts]
    /\ destState \in p.destState
    /\ files \in IF destState = "dir"
                 THEN [PlaybookNames(sys.fqdn, args) -> p.status]
                 ELSE {NoFiles(sys.fqdn, args)}
    /\ scm_args = EmptyDict
    /\ warnings = {}
    /\ errors = {}
    /\ calls = <<>>
    /\ playbook = <<>>
    /\ rc = 0
    /\ b_out = FALSE
    /\ pc = "parse"
    /\ result = NoResult

----------------------------------------------------------------------------
(* The program *)

\* PullCLI.parse
Parse ==
    /\ pc = "parse"
    /\ \E secs \in 0..(IF options.sleep.kind = "int" /\ options.sleep.n > 0
                       THEN options.sleep.n ELSE 0) :
         LET r == ParseOutcome(options, sys, destState, secs)
         IN  /\ options' = r.options
             /\ scm_args' = r.scm_args
             /\ result' = r.result
             /\ pc' = IF r.result.kind = "error" THEN "done" ELSE "run"
    /\ UNCHANGED <<args, sys, destState, files, warnings, errors, calls, playbook, rc, b_out>>

\* PullCLI.run up to the checkout command: the SCM options and the module lookup
RunScmOptions ==
    /\ pc = "run"
    /\ IF options.module_name \notin Range(REPO_CHOICES)
       THEN /\ result' = AnsibleOptionsError("Unsupported SCM module for pull", REPO_CHOICES)
            /\ pc' = "done"
            /\ UNCHANGED <<scm_args, warnings>>
       ELSE LET st == ScmOptions(options, scm_args)
            IN  /\ scm_args' = st.args
                /\ warnings' = warnings \cup st.warnings
                /\ IF ~sys.plugin
                   THEN /\ result' = AnsibleOptionsError("module not found", <<>>)
                        /\ pc' = "done"
                   ELSE /\ result' = result
                        /\ pc' = "checkout"
    /\ UNCHANGED <<options, args, sys, destState, files, errors, calls, playbook, rc, b_out>>

\* run_cmd of the checkout command: the subprocess exits with code, prints the
\* changed marker or not, and leaves the working copy in some state
RunCheckout ==
    /\ pc = "checkout"
    /\ \E code \in 0..MaxRc, changed \in BOOLEAN, ds \in {"absent", "dir"} :
         /\ ds = "absent" => destState = "absent" /\ code # 0
         /\ \E fs \in IF ds = "dir"
                      THEN [PlaybookNames(sys.fqdn, args) -> {"absent", "unreadable", "ok"}]
                      ELSE {NoFiles(sys.fqdn, args)} :
              files' = fs
         /\ destState' = ds
         /\ rc' = code
         /\ b_out' = changed
         /\ calls' = Append(calls, Call("ansible", options.module_name, scm_args, <<>>,
                                        code, changed))
    /\ pc' = "policy"
    /\ UNCHANGED <<options, args, sys, scm_args, warnings, errors, playbook, result>>

\* RunSelect that purges the checkout before each of its early exits
RunSelect_PurgesOnExit ==
    /\ pc = "policy"
    /\ LET policy == CheckoutPolicy(rc, options.force, options.ifchanged, b_out)
           sel    == select_playbook(options.dest, args, sys.fqdn, files)
           early  == policy # "continue" \/ sel.playbook = <<>>
       IN  /\ IF policy # "continue"
              THEN /\ result' = EarlyReturn(policy, rc)
                   /\ pc' = "done"
                   /\ UNCHANGED <<warnings, playbook>>
              ELSE /\ warnings' = warnings \cup sel.warnings \cup
                                  (IF rc # 0 THEN {Warning("forced", "", "", <<>>)} ELSE {})
                   /\ playbook' = sel.playbook
                   /\ IF sel.playbook = <<>>
                      THEN /\ result' = AnsibleOptionsError("Could not find a playbook to run.",
                                                            <<>>)
                           /\ pc' = "done"
                      ELSE /\ result' = result
                           /\ pc' = "playbook"
           /\ IF early /\ options.purge
              THEN /\ destState' = "absent"
                   /\ files' = NoFiles(sys.fqdn, args)
              ELSE UNCHANGED <<destState, files>>
    /\ UNCHANGED <<options, args, sys, scm_args, errors, calls, rc, b_out>>

\* PullCLI.run from the checkout's result to the selected playbook
RunSelect ==
    /\ pc = "policy"
    /\ LET policy == CheckoutPolicy(rc, options.force, options.ifchanged, b_out)
           sel    == select_playbook(options.dest, args, sys.fqdn, files)
       IN  IF policy # "continue"
           THEN /\ result' = EarlyReturn(policy, rc)
                /\ pc' = "done"
                /\ UNCHANGED <<warnings, playbook>>
           ELSE /\ warnings' = warnings \cup sel.warnings \cup
                               (IF rc # 0 THEN {Warning("forced", "", "", <<>>)} ELSE {})
                /\ playbook' = sel.playbook
                /\ IF sel.playbook = <<>>
                   THEN /\ result' = AnsibleOptionsError("Could not find a playbook to run.", <<>>)
                        /\ pc' = "done"
                   ELSE /\ result' = result
                        /\ pc' = "playbook"
    /\ UNCHANGED <<options, args, sys, destState, files, scm_args, errors, calls, rc, b_out>>

\* run_cmd of the playbook command, after os.chdir(dest)
RunPlaybook ==
    /\ pc = "playbook"
    /\ IF destState # "dir"
       THEN /\ result' = [kind |-> "exception", rc |-> 0, msg |-> "OSError", detail |-> <<>>]
            /\ pc' = "done"
            /\ UNCHANGED <<calls, rc>>
       ELSE /\ \E code \in 0..MaxRc :
                 /\ rc' = code
                 /\ calls' = Append(calls, Call("ansible-playbook", "", EmptyDict, playbook,
                                                code, FALSE))
            /\ pc' = "purge"
            /\ result' = result
    /\ UNCHANGED <<options, args, sys, destState, files, scm_args, warnings, errors,
                   playbook, b_out>>

\* RunPurge without the try/except around shutil.rmtree
RunPurge_Propagates ==
    /\ pc = "purge"
    /\ IF options.purge
       THEN \E ok \in BOOLEAN :
              IF ok
              THEN /\ destState' = "absent"
                   /\ files' = NoFiles(sys.fqdn, args)
                   /\ result' = Return(rc)
              ELSE /\ result' = [kind |-> "exception", rc |-> 0, msg |-> "OSError",
                                 detail |-> <<>>]
                   /\ UNCHANGED <<destState, files>>
       ELSE /\ result' = Return(rc)
            /\ UNCHANGED <<destState, files>>
    /\ pc' = "done"
    /\ UNCHANGED <<options, args, sys, scm_args, warnings, errors, calls, playbook, rc, b_out>>

\* the purge and the return of run; shutil.rmtree succeeds or raises
RunPurge ==
    /\ pc = "purge"
    /\ IF options.purge
       THEN \E ok \in BOOLEAN :
              IF ok
              THEN /\ destState' = "absent"
                   /\ files' = NoFiles(sys.fqdn, args)
                   /\ errors' = errors
              ELSE /\ errors' = errors \cup {"Failed to remove"}
                   /\ UNCHANGED <<destState, files>>
       ELSE UNCHANGED <<destState, files, errors>>
    /\ result' = Return(rc)
    /\ pc' = "done"
    /\ UNCHANGED <<options, args, sys, scm_args, warnings, calls, playbook, rc, b_out>>

Next == Parse \/ RunScmOptions \/ RunCheckout \/ RunSelect \/ RunPlaybook \/ RunPurge

----------------------------------------------------------------------------
(* Specifications: the same program on three families of command lines *)

U1 == "https://example.org/repo.git"
U2 == "https://example.org/other.git"
D1 == "/srv/pull"
D2 == "/srv/other"
Host1 == <<"node1">>
Host2 == <<"node1", "example">>
SitePlaybook == <<"site", "yml">>

\* orchestration: every policy flag, host, positional argument and subprocess
\* outcome, with one command line for each configuration error
RunProfile ==
    [module_name |-> {"git", "subversion"}, url |-> {"", U1}, dest |-> {"", D1},
     sleep |-> {SleepNone, SleepText, SleepInt(MaxSleep)},
     module_args |-> {<<>>, <<<<"dest", D1>>>>, <<<<"name", U2>>>>},
     checkout |-> {""}, clean |-> {FALSE}, accept_host_key |-> {FALSE},
     fullclone |-> {FALSE}, private_key_file |-> {""}, tracksubs |-> {FALSE},
     verify |-> {FALSE}, force |-> BOOLEAN, ifchanged |-> BOOLEAN, purge |-> BOOLEAN,
     args |-> {<<>>, <<SitePlaybook>>}, fqdn |-> {Host1, Host2},
     plugin |-> BOOLEAN, conflicts |-> BOOLEAN,
     destState |-> {"absent", "dir", "file"}, status |-> {"absent"}]

Spec == InitFrom(RunProfile) /\ [][Next]_vars

\* option reconciliation: every module name, URL, directory, sleep value and
\* reserved key in --module-args
ParsePairs == {<<"dest", D1>>, <<"dest", D2>>, <<"name", U1>>, <<"name", U2>>,
               <<"repo", U2>>}

ParseProfile ==
    [module_name |-> Range(REPO_CHOICES) \cup {"cvs"}, url |-> {"", U1, U2},
     dest |-> {"", D1}, sleep |-> SleepValues,
     module_args |-> Seqs(ParsePairs, MaxArgs),
     checkout |-> {""}, clean |-> BOOLEAN, accept_host_key |-> {FALSE},
     fullclone |-> {FALSE}, private_key_file |-> {""}, tracksubs |-> {FALSE},
     verify |-> {FALSE}, force |-> {FALSE}, ifchanged |-> {TRUE}, purge |-> {FALSE},
     args |-> {<<>>}, fqdn |-> {Host1},
     plugin |-> BOOLEAN, conflicts |-> BOOLEAN,
     destState |-> {"absent", "dir", "file"}, status |-> {"ok"}]

SpecParse == InitFrom(ParseProfile) /\ [][Next]_vars

\* SCM options: every legacy flag against every --module-args key it overrides
GitPairs == {<<"depth", "5">>, <<"version", "v1.0">>,
             <<"accept_hostkey", "no">>, <<"key_file", "/keys/a">>,
             <<"track_submodules", "no">>, <<"verify_commit", "no">>}

ScmProfile ==
    [module_name |-> {"git", "cvs"}, url |-> {U1}, dest |-> {D1}, sleep |-> {SleepNone},
     module_args |-> Seqs(GitPairs, MaxArgs),
     checkout |-> {"", "devel"}, clean |-> {FALSE}, accept_host_key |-> BOOLEAN,
     fullclone |-> BOOLEAN, private_key_file |-> {"", "/keys/b"}, tracksubs |-> BOOLEAN,
     verify |-> BOOLEAN, force |-> {FALSE}, ifchanged |-> {TRUE}, purge |-> {FALSE},
     args |-> {<<>>}, fqdn |-> {Host1},
     plugin |-> {TRUE}, conflicts |-> {FALSE},
     destState |-> {"dir"}, status |-> {"ok"}]

SpecScm == InitFrom(ScmProfile) /\ [][Next]_vars

----------------------------------------------------------------------------
(* Properties *)

Done == pc = "done"
CheckoutInvoked == \E i \in DOMAIN calls : calls[i].cmd = "ansible"
PlaybookInvoked == \E i \in DOMAIN calls : calls[i].cmd = "ansible-playbook"
\* the exit code and the output of the checkout subprocess
CheckoutRc == calls[1].rc
CheckoutChanged == calls[1].changed
NoPlaybookError == AnsibleOptionsError("Could not find a playbook to run.", <<>>)

\* C1 as stated: when the checkout subprocess exits non-zero, run returns
\* exactly that code without invoking ansible-playbook if force is unset, and
\* invokes ansible-playbook if force is set.
C1_AsStated ==
    Done /\ CheckoutInvoked /\ CheckoutRc # 0 =>
        IF ~options.force
        THEN result = Return(CheckoutRc) /\ ~PlaybookInvoked
        ELSE PlaybookInvoked

\* C1 amended: when the checkout subprocess exits non-zero, run returns
\* exactly that code without invoking ansible-playbook if force is unset; if
\* force is set, run warns and goes on to playbook selection, and
\* ansible-playbook is invoked exactly when a playbook is selected (otherwise
\* run ends with the "Could not find a playbook to run." error).
C1_ForcePolicy ==
    Done /\ CheckoutInvoked /\ CheckoutRc # 0 =>
        IF ~options.force
        THEN result = Return(CheckoutRc) /\ ~PlaybookInvoked
        ELSE /\ Warning("forced", "", "", <<>>) \in warnings
             /\ PlaybookInvoked <=> playbook # <<>>
             /\ ~PlaybookInvoked <=> result = NoPlaybookError

\* a forced run after a failed checkout has run the playbook to its end
C1_Witness ==
    /\ Done /\ CheckoutInvoked /\ CheckoutRc = MaxRc /\ options.force
    /\ PlaybookInvoked /\ result.kind = "return"

\* C2 as stated: whenever only-if-changed is set and the checkout output lacks
\* the changed marker, run returns 0 without invoking ansible-playbook, for
\* every checkout exit code and every value of force.
C2_AsStated ==
    Done /\ CheckoutInvoked /\ options.ifchanged /\ ~CheckoutChanged =>
        result = Return(0) /\ ~PlaybookInvoked

\* C2 amended: whenever only-if-changed is set, the checkout subprocess exits
\* with code 0 and its output lacks the changed marker, run returns 0 without
\* invoking ansible-playbook, for every value of force.
C2_SkipUnchanged ==
    Done /\ CheckoutInvoked /\ options.ifchanged /\ ~CheckoutChanged /\ CheckoutRc = 0 =>
        result = Return(0) /\ ~PlaybookInvoked

\* an unchanged repository was skipped although force was set and a playbook
\* was there to run
C2_Witness ==
    /\ Done /\ CheckoutInvoked /\ options.ifchanged /\ ~CheckoutChanged /\ CheckoutRc = 0
    /\ options.force /\ result = Return(0)
    /\ select_playbook(options.dest, args, sys.fqdn, files).playbook # <<>>

\* C3 as stated: no run that has invoked the checkout subprocess ends with a
\* configuration error.
C3_AsStated == Done /\ result.kind = "error" => ~CheckoutInvoked

\* C3 amended: every configuration error except "Could not find a playbook to
\* run." is raised before any subprocess has been invoked; that one is raised
\* after the checkout subprocess and before any ansible-playbook subprocess.
C3_ErrorsBeforeSubprocess ==
    Done /\ result.kind = "error" =>
        IF result = NoPlaybookError
        THEN Len(calls) = 1 /\ calls[1].cmd = "ansible"
        ELSE calls = <<>>

\* the checkout ran and the run then ended with the no-playbook error
C3_Witness == Done /\ result = NoPlaybookError /\ CheckoutInvoked /\ CheckoutRc = 0

\* C4: parse accepts every module name of git, subversion, hg, bzr and fails
\* with a configuration error naming that supported set for every other name.
C4_AsStated ==
    pc # "parse" =>
        /\ options.module_name \in {"git", "subversion", "hg", "bzr"} =>
               result.msg # "Unsupported repo module"
        /\ options.module_name \notin {"git", "subversion", "hg", "bzr"} =>
               /\ result.kind = "error"
               /\ result.msg = "Unsupported repo module" =>
                      Range(result.detail) = {"git", "subversion", "hg", "bzr"}

\* select_playbook has returned and nothing has touched the checkout since
Selected == pc = "playbook" \/ (Done /\ result = NoPlaybookError)

\* C5: without a positional argument select_playbook returns the first of
\* <dest>/<fqdn>.yml, <dest>/<short hostname>.yml, <dest>/local.yml that exists
\* and is readable, and None exactly when none of the three does.
C5_FallbackOrder ==
    Selected /\ Len(args) = 0 =>
        LET d   == options.dest
            n1  == sys.fqdn \o <<"yml">>
            n2  == <<sys.fqdn[1], "yml">>
            n3  == <<"local", "yml">>
        IN  /\ playbook = IF files[n1] = "ok" THEN <<d, n1>>
                          ELSE IF files[n2] = "ok" THEN <<d, n2>>
                          ELSE IF files[n3] = "ok" THEN <<d, n3>>
                          ELSE <<>>
            /\ playbook = <<>> <=> \A n \in {n1, n2, n3} : files[n] # "ok"

\* only local.yml is usable, the fqdn playbook exists but is unreadable, and
\* local.yml was selected
C5_Witness ==
    /\ pc = "playbook" /\ Len(args) = 0 /\ sys.fqdn = Host2
    /\ files[<<"node1", "example", "yml">>] = "unreadable"
    /\ files[<<"node1", "yml">>] = "absent"
    /\ playbook = <<options.dest, <<"local", "yml">>>>

\* C6: with a positional argument P select_playbook returns <dest>/P exactly
\* when that file exists and is readable; otherwise it returns None, warning
\* "File does not exist" for a missing file and "File is not readable" for an
\* unreadable one, whatever the state of the fallback candidates.
C6_ExplicitPlaybook ==
    Selected /\ Len(args) > 0 =>
        LET P  == args[1]
            pb == <<options.dest, P>>
        IN  /\ playbook = pb <=> files[P] = "ok"
            /\ playbook \in {pb, <<>>}
            /\ files[P] = "absent" =>
                   Warning("playbook", "", "", <<<<pb, "File does not exist">>>>) \in warnings
            /\ files[P] = "unreadable" =>
                   Warning("playbook", "", "", <<<<pb, "File is not readable">>>>) \in warnings

\* the named playbook is missing, local.yml is there and readable, and
\* nothing was selected
C6_Witness ==
    /\ Done /\ result = NoPlaybookError /\ args = <<SitePlaybook>>
    /\ files[SitePlaybook] = "absent" /\ files[<<"local", "yml">>] = "ok"
    /\ playbook = <<>>

\* what --module-args supplied, read off the command line: whether a pair
\* with this key was given, and the value of the last such pair
Supplied(key) == \E i \in DOMAIN options.module_args : options.module_args[i][1] = key
SuppliedValue(key) ==
    LET is == {i \in DOMAIN options.module_args : options.module_args[i][1] = key}
    IN  options.module_args[CHOOSE i \in is : \A j \in is : j <= i][2]

\* the map handed to the checkout invocation
CheckoutArgs == calls[1].args

\* C7: for module git the map handed to the checkout invocation has, with
\* --full unset, a depth entry equal to the depth --module-args supplied or
\* else "1"; with --full set it has no depth entry, and the removal warning is
\* emitted exactly when --module-args had supplied a depth.
C7_GitDepth ==
    CheckoutInvoked /\ calls[1].module = "git" =>
        IF ~options.fullclone
        THEN /\ Has(CheckoutArgs, "depth")
             /\ CheckoutArgs["depth"] = IF Supplied("depth") THEN SuppliedValue("depth")
                                        ELSE "1"
        ELSE /\ ~Has(CheckoutArgs, "depth")
             /\ Warning("removed", "depth", "--full", <<>>) \in warnings
                    <=> Supplied("depth")

\* --full removed the depth that --module-args supplied, with the warning
C7_Witness ==
    /\ CheckoutInvoked /\ calls[1].module = "git"
    /\ options.fullclone /\ Supplied("depth") /\ ~Has(CheckoutArgs, "depth")
    /\ Warning("removed", "depth", "--full", <<>>) \in warnings

\* the legacy flags of module git: whether the flag is set, the key it
\* writes and the value it writes
LegacyFlags ==
    { [set |-> options.checkout # "", key |-> "version", value |-> options.checkout],
      [set |-> options.accept_host_key, key |-> "accept_hostkey", value |-> "yes"],
      [set |-> options.private_key_file # "", key |-> "key_file",
       value |-> options.private_key_file],
      [set |-> options.tracksubs, key |-> "track_submodules", value |-> "yes"],
      [set |-> options.verify, key |-> "verify_commit", value |-> "yes"] }

\* C8: for module git and each legacy flag, a set flag puts its value under
\* its key in the map handed to the checkout invocation whatever
\* --module-args supplied, and warns exactly when --module-args had supplied
\* the key; with the flag unset the --module-args entry passes through
\* unchanged.
C8_LegacyFlagsOverride ==
    CheckoutInvoked /\ calls[1].module = "git" =>
        \A f \in LegacyFlags :
            IF f.set
            THEN /\ Has(CheckoutArgs, f.key)
                 /\ CheckoutArgs[f.key] = f.value
                 /\ (\E w \in warnings : w.text = "overridden" /\ w.key = f.key)
                        <=> Supplied(f.key)
            ELSE /\ Has(CheckoutArgs, f.key) <=> Supplied(f.key)
                 /\ Supplied(f.key) => CheckoutArgs[f.key] = SuppliedValue(f.key)

\* --checkout devel overrode version=v1.0 with a warning, while the
\* accept_hostkey=no of --module-args passed through
C8_Witness ==
    /\ CheckoutInvoked /\ calls[1].module = "git"
    /\ options.checkout = "devel" /\ Supplied("version")
    /\ CheckoutArgs["version"] = "devel"
    /\ Warning("overridden", "version", "--checkout", <<>>) \in warnings
    /\ ~options.accept_host_key /\ Supplied("accept_hostkey")
    /\ CheckoutArgs["accept_hostkey"] = "no"

\* C9: whenever ansible-playbook was invoked run returns its exit code; with
\* purge set the destination is still there when ansible-playbook returns and
\* is gone once the deletion has succeeded, and a failed deletion is only
\* logged.
C9_PlaybookExitCode ==
    /\ pc = "purge" => PlaybookInvoked /\ destState = "dir"
    /\ Done /\ PlaybookInvoked =>
           /\ result = Return(calls[Len(calls)].rc)
           /\ options.purge /\ "Failed to remove" \notin errors => destState = "absent"
           /\ ~options.purge => errors = {} /\ destState = "dir"

\* the deletion failed, the failure was logged, and run returned the exit
\* code of ansible-playbook
C9_Witness ==
    /\ Done /\ PlaybookInvoked /\ options.purge
    /\ "Failed to remove" \in errors /\ destState = "dir"
    /\ calls[2].rc = MaxRc /\ result = Return(MaxRc)

\* the errors parse raises
ParseErrors ==
    { "is not a valid or accessible directory", "is not a number",
      "URL for repository not specified", "Unsupported repo module",
      "--module-args 'dest=<repo destination>' cannot be used",
      "--module-args 'name=<repo URL>' cannot be used",
      "--module-args 'repo=<repo URL>' cannot be used", "conflicting options" }
ParseFailed == result.kind = "error" /\ result.msg \in ParseErrors

\* something other than the name entry that makes parse fail
OtherDefect ==
    \/ destState = "file"
    \/ options.sleep.kind = "text"
    \/ options.sleep.kind = "int" /\ options.sleep.n < 0
    \/ options.url = ""
    \/ Supplied("dest")
    \/ sys.conflicts

\* C10: a --module-args entry dest=X makes parse fail for every X; with
\* module git an entry name=Y makes parse fail when Y is not the URL, and
\* parse succeeds when Y is the URL and nothing else is wrong.
C10_ReservedKeys ==
    pc # "parse" =>
        /\ Supplied("dest") => ParseFailed
        /\ options.module_name = "git" /\ Supplied("name") =>
               IF SuppliedValue("name") # options.url
               THEN ParseFailed
               ELSE /\ result.msg # "--module-args 'name=<repo URL>' cannot be used"
                    /\ ~OtherDefect => ~ParseFailed

\* parse accepted name=<the URL> for module git
C10_Witness ==
    /\ pc = "run" /\ options.module_name = "git"
    /\ Supplied("name") /\ SuppliedValue("name") = options.url /\ options.url = U2

\* C11: the program itself removes, or tries to remove, the destination only
\* in the purge step, with purge set and after ansible-playbook has been
\* invoked and has returned: every other step of parse and run leaves the
\* destination and its files as they are and logs no error, so a run that ends
\* earlier (unforced checkout failure, only-if-changed skip, no playbook)
\* leaves the destination as the checkout subprocess left it even with purge
\* set.  The one step that is not the program's own is the checkout
\* subprocess, which writes the working copy.
C11_PurgeOnlyAfterPlaybook ==
    [][ (destState' # destState \/ files' # files \/ errors' # errors) /\ pc # "checkout"
            => /\ pc = "purge"
               /\ options.purge
               /\ PlaybookInvoked
               /\ calls' = calls ]_vars

\* purge was set, the run ended on the only-if-changed skip, and the
\* destination and the playbook in it are still there
C11_Witness ==
    /\ Done /\ options.purge /\ CheckoutInvoked /\ ~PlaybookInvoked
    /\ result = Return(0) /\ options.ifchanged /\ ~CheckoutChanged
    /\ destState = "dir" /\ files[<<"local", "yml">>] = "ok" /\ errors = {}

====
